---- MODULE Spec2Model ----
(***************************************************************************)
(* Model of digitalScope.py: a camera feed with a crosshair overlay.       *)
(*                                                                         *)
(* Three threads of control are modelled:                                  *)
(*   - the module-level code (initialisation, render loop, clean up),      *)
(*   - the background thread running VideoStream.update,                   *)
(*   - the display layer's dispatch of getMouseCoordinates, whose          *)
(*     statements interleave with those of the render loop.                *)
(* The camera (cv2.VideoCapture) is the environment: opening it and each   *)
(* read may succeed or fail.                                               *)
(***************************************************************************)
EXTENDS Integers, Sequences, FiniteSets, TLC

(* ---------------------------- bounds ----------------------------------- *)
\* pointer events carry coordinates in 0..MaxPointer
MaxPointer == 1
\* number of acquisitions the background loop starts before stop()
MaxAcq == 2
\* number of iterations the render loop starts
MaxIter == 2
\* resolution the camera reports once it is opened
CamWidth == 640
CamHeight == 480
\* resolution of the frames on which the crosshair's pixels are examined
RenderWidth == 70
RenderHeight == 68
\* pixels a thick line's rounded end may cover beyond its end point
CapMax == 2

(* ---------------------------- constants -------------------------------- *)
CROSSHAIR_CENTER_SPACE == 10
CROSSHAIR_ACCENT1_LENGTH == 21
CROSSHAIR_ACCENT2_LENGTH == 20
CV_CAP_PROP_FRAME_WIDTH == 3
CV_CAP_PROP_FRAME_HEIGHT == 4
\* ord('q'), ord('Q')
ORD_q == 113
ORD_Q == 81
\* the value of Python's None for a frame reference and for unset integers
None == -1
\* cv2.EVENT_MOUSEMOVE, cv2.EVENT_LBUTTONDOWN, cv2.EVENT_LBUTTONUP
EVENT_MOUSEMOVE == 0
EVENT_LBUTTONDOWN == 1
EVENT_LBUTTONUP == 4

\* no call of getMouseCoordinates has been made
NoEvent == <<None, None, None>>
EventKinds == {EVENT_MOUSEMOVE, EVENT_LBUTTONDOWN, EVENT_LBUTTONUP}
PointerRange == 0..MaxPointer
\* the positions pointer events report: the points <<p, p>>, so that two
\* different events differ in both coordinates
PointerPoints == {<<p, p>> : p \in PointerRange}
\* results of cv2.waitKey(1): -1 (no key), 'q', 'Q', and a key code above 255
\* whose low byte is that of 'q'
KeyCodes == {-1, ORD_q, ORD_Q, ORD_q + 256}

VARIABLES
    mainpc,        \* position of the module-level code
    bgpc,          \* position of the thread running VideoStream.update
    cbpc,          \* position inside getMouseCoordinates / setCrossHair
    opened,        \* capture.stream.isOpened()
    self_grabbed,  \* VideoStream.grabbed
    self_frame,    \* VideoStream.frame: a reference to an image, or None
    self_stopped,  \* VideoStream.stopped
    image,         \* the heap of numpy images: reference -> crosshairs drawn on it
    acqCount,      \* number of stream.read() calls made by update
    mouseDown,     \* global mouseDown
    crossHairX,    \* global crossHairX
    crossHairY,    \* global crossHairY
    imageWidth,    \* global imageWidth
    imageHeight,   \* global imageHeight
    frame,         \* module-level variable frame of the render loop
    argX,          \* crossHairX as evaluated for the renderCrossHair call
    argY,          \* crossHairY as evaluated for the renderCrossHair call
    img,           \* module-level variable img
    iter,          \* number of render loop iterations started
    shown,         \* what the window displays: <<image reference, its crosshairs>>
    key,           \* the result of the cv2.waitKey(1) call just made (a temporary)
    event,         \* arguments of the running getMouseCoordinates call
    argMouseDown,  \* parameter mouseDown of the running setCrossHair call
    pre,           \* history: <<crossHairX, crossHairY, mouseDown>> when the last event was delivered
    dragging,      \* history: a drag is in progress (a PRESS and no RELEASE since)
    expected,      \* history: position of the last PRESS, or MOVE during a drag
    pressSeen,     \* history: a PRESS has been delivered
    acqAfterStop   \* history: acquisitions completed by update after stop() set the flag

vars == <<mainpc, bgpc, cbpc, opened, self_grabbed, self_frame, self_stopped,
          image, acqCount, mouseDown, crossHairX, crossHairY, imageWidth,
          imageHeight, frame, argX, argY, img, iter, shown, key, event, argMouseDown,
          pre, dragging, expected, pressSeen, acqAfterStop>>

streamVars == <<opened, self_grabbed, self_frame, self_stopped, acqCount>>
pointerVars == <<mouseDown, crossHairX, crossHairY>>
histVars == <<pre, dragging, expected, pressSeen>>
cbVars == <<cbpc, event, argMouseDown, histVars>>
loopVars == <<frame, argX, argY, img, iter, shown, key>>
geomVars == <<imageWidth, imageHeight>>

(* ----------------------- the capture device ---------------------------- *)
\* cv2.VideoCapture.read(): (ok, frame); a failed read yields (False, None),
\* a read of an unopened or released device always fails.  ref is the
\* reference a new image would get.
StreamRead(isOpen, ref) ==
    IF isOpen THEN {<<TRUE, ref>>, <<FALSE, None>>} ELSE {<<FALSE, None>>}

\* cv2.VideoCapture.get(prop): 0 when the device is not opened
StreamGet(isOpen, prop) ==
    IF ~isOpen THEN 0
    ELSE IF prop = CV_CAP_PROP_FRAME_WIDTH THEN CamWidth
    ELSE IF prop = CV_CAP_PROP_FRAME_HEIGHT THEN CamHeight
    ELSE 0

\* the heap after a read that returned reference ref: a fresh image carries
\* no crosshair
Alloc(heap, ref) ==
    IF ref = None THEN heap
    ELSE [r \in DOMAIN heap \cup {ref} |-> IF r = ref THEN {} ELSE heap[r]]

(* ----------------------------- Init ------------------------------------ *)
\* the state after lines 221-224: mouseDown = False, the window exists and
\* getMouseCoordinates is registered; nothing else is defined yet
Init ==
    /\ mainpc = "VideoStream"
    /\ bgpc = "notStarted"
    /\ cbpc = "idle"
    /\ opened = FALSE
    /\ self_grabbed = FALSE
    /\ self_frame = None
    /\ self_stopped = FALSE
    /\ image = <<>>
    /\ acqCount = 0
    /\ mouseDown = FALSE
    /\ crossHairX = None
    /\ crossHairY = None
    /\ imageWidth = None
    /\ imageHeight = None
    /\ frame = None
    /\ argX = None
    /\ argY = None
    /\ img = None
    /\ iter = 0
    /\ shown = <<None, {}>>
    /\ key = None
    /\ event = NoEvent
    /\ argMouseDown = FALSE
    /\ pre = <<None, None, FALSE>>
    /\ dragging = FALSE
    /\ expected = <<None, None>>
    /\ pressSeen = FALSE
    /\ acqAfterStop = 0

(* ------------------------- VideoStream --------------------------------- *)
\* VideoStream.__init__: open the device, read the first image
VideoStreamInit ==
    /\ mainpc = "VideoStream"
    /\ \E isOpen \in BOOLEAN :
         \E r \in StreamRead(isOpen, 0) :
            /\ opened' = isOpen
            /\ self_grabbed' = r[1]
            /\ self_frame' = r[2]
            /\ image' = Alloc(image, r[2])
    /\ self_stopped' = FALSE
    /\ mainpc' = "start"
    /\ UNCHANGED <<bgpc, acqCount, acqAfterStop, pointerVars, cbVars, loopVars, geomVars>>

\* VideoStream.start: start the thread running update
VideoStreamStart ==
    /\ mainpc = "start"
    /\ bgpc' = "check"
    /\ mainpc' = "isOpened"
    /\ UNCHANGED <<streamVars, image, acqAfterStop, pointerVars, cbVars, loopVars, geomVars>>

\* update without the test of self.stopped
UpdateCheck_NoTest ==
    /\ bgpc = "check"
    /\ bgpc' = "read"
    /\ UNCHANGED <<mainpc, streamVars, image, acqAfterStop, pointerVars, cbVars, loopVars, geomVars>>

\* VideoStream.update, "if self.stopped: return"
UpdateCheck ==
    /\ bgpc = "check"
    /\ bgpc' = IF self_stopped THEN "returned" ELSE "read"
    /\ UNCHANGED <<mainpc, streamVars, image, acqAfterStop, pointerVars, cbVars, loopVars, geomVars>>

\* update that keeps the frame it holds when a newer one arrives
UpdateRead_Stale ==
    /\ bgpc = "read"
    /\ acqCount < MaxAcq \/ (self_stopped /\ acqAfterStop < 2)
    /\ \E r \in StreamRead(opened, acqCount + 1) :
         /\ self_grabbed' = r[1]
         /\ self_frame' = IF self_frame # None THEN self_frame ELSE r[2]
         /\ image' = Alloc(image, r[2])
    /\ acqCount' = acqCount + 1
    /\ acqAfterStop' = IF self_stopped THEN acqAfterStop + 1 ELSE acqAfterStop
    /\ bgpc' = "check"
    /\ UNCHANGED <<mainpc, opened, self_stopped, pointerVars, cbVars, loopVars, geomVars>>

\* VideoStream.update, "self.grabbed, self.frame = self.stream.read()"
UpdateRead ==
    /\ bgpc = "read"
    \* bound: MaxAcq reads before stop(); a read after stop() is never held
    \* back by the bound (two of them are enough to tell one from more)
    /\ acqCount < MaxAcq \/ (self_stopped /\ acqAfterStop < 2)
    /\ \E r \in StreamRead(opened, acqCount + 1) :
         /\ self_grabbed' = r[1]
         /\ self_frame' = r[2]
         /\ image' = Alloc(image, r[2])
    /\ acqCount' = acqCount + 1
    /\ acqAfterStop' = IF self_stopped THEN acqAfterStop + 1 ELSE acqAfterStop
    /\ bgpc' = "check"
    /\ UNCHANGED <<mainpc, opened, self_stopped, pointerVars, cbVars, loopVars, geomVars>>

\* VideoStream.read
VideoStreamRead == self_frame

\* VideoStream.stop, "self.stopped = True"
StopSetFlag ==
    /\ mainpc = "stop"
    /\ self_stopped' = TRUE
    /\ key' = None
    /\ mainpc' = "release"
    /\ UNCHANGED <<bgpc, opened, self_grabbed, self_frame, acqCount, image,
                   acqAfterStop, pointerVars, cbVars, frame, argX, argY, img,
                   iter, shown, geomVars>>

\* release that takes the geometry a released device reports
StopRelease_Resizes ==
    /\ mainpc = "release"
    /\ opened' = FALSE
    /\ imageWidth' = StreamGet(FALSE, CV_CAP_PROP_FRAME_WIDTH)
    /\ imageHeight' = StreamGet(FALSE, CV_CAP_PROP_FRAME_HEIGHT)
    /\ mainpc' = "destroyAllWindows"
    /\ UNCHANGED <<bgpc, self_grabbed, self_frame, self_stopped, acqCount, image,
                   acqAfterStop, pointerVars, cbVars, loopVars>>

\* VideoStream.stop, "self.stream.release()"
StopRelease ==
    /\ mainpc = "release"
    /\ opened' = FALSE
    /\ mainpc' = "destroyAllWindows"
    /\ UNCHANGED <<bgpc, self_grabbed, self_frame, self_stopped, acqCount, image,
                   acqAfterStop, pointerVars, cbVars, loopVars, geomVars>>

(* ----------------------- module-level code ----------------------------- *)
\* "if not capture.stream.isOpened(): capture.stream.open(0)"
OpenIfNotOpened ==
    /\ mainpc = "isOpened"
    /\ IF opened THEN opened' = TRUE ELSE opened' \in BOOLEAN
    /\ mainpc' = "defaultCrossHair"
    /\ UNCHANGED <<bgpc, self_grabbed, self_frame, self_stopped, acqCount, image,
                   acqAfterStop, pointerVars, cbVars, loopVars, geomVars>>

\* defaultCrossHair with the two halves exchanged
defaultCrossHair_Swapped(isOpen) ==
    LET w == StreamGet(isOpen, CV_CAP_PROP_FRAME_WIDTH)
        h == StreamGet(isOpen, CV_CAP_PROP_FRAME_HEIGHT)
    IN  <<w, h, h \div 2, w \div 2>>

\* defaultCrossHair(capture): <<imageWidth, imageHeight, crossHairX, crossHairY>>
defaultCrossHair(isOpen) ==
    LET w == StreamGet(isOpen, CV_CAP_PROP_FRAME_WIDTH)
        h == StreamGet(isOpen, CV_CAP_PROP_FRAME_HEIGHT)
    IN  <<w, h, w \div 2, h \div 2>>

\* "imageWidth, imageHeight, crossHairX, crossHairY = defaultCrossHair(capture)"
SetDefaultCrossHair ==
    /\ mainpc = "defaultCrossHair"
    /\ LET d == defaultCrossHair(opened) IN
         /\ imageWidth' = d[1]
         /\ imageHeight' = d[2]
         /\ crossHairX' = d[3]
         /\ crossHairY' = d[4]
         /\ expected' = <<d[3], d[4]>>
    /\ mainpc' = "read"
    /\ UNCHANGED <<bgpc, streamVars, image, acqAfterStop, mouseDown, cbpc, event,
                   argMouseDown, pre, dragging, pressSeen, loopVars>>

\* the positions of the "while True" loop
Running == mainpc \in {"read", "argX", "argY", "render", "imshow", "waitKey"}

\* "frame = capture.read()"
LoopRead ==
    /\ mainpc = "read"
    /\ iter < MaxIter
    /\ iter' = iter + 1
    /\ frame' = VideoStreamRead
    /\ key' = None
    /\ mainpc' = "argX"
    /\ UNCHANGED <<bgpc, streamVars, image, acqAfterStop, pointerVars, cbVars,
                   argX, argY, img, shown, geomVars>>

\* evaluation of the argument crossHairX of the renderCrossHair call
LoopArgX ==
    /\ mainpc = "argX"
    /\ argX' = crossHairX
    /\ mainpc' = "argY"
    /\ UNCHANGED <<bgpc, streamVars, image, acqAfterStop, pointerVars, cbVars,
                   frame, argY, img, shown, key, iter, geomVars>>

\* evaluation of the argument crossHairY of the renderCrossHair call
LoopArgY ==
    /\ mainpc = "argY"
    /\ argY' = crossHairY
    /\ mainpc' = "render"
    /\ UNCHANGED <<bgpc, streamVars, image, acqAfterStop, pointerVars, cbVars,
                   frame, argX, img, shown, key, iter, geomVars>>

(* ---------------------- the crosshair's pixels ------------------------- *)
Min(a, b) == IF a <= b THEN a ELSE b
Max(a, b) == IF a >= b THEN a ELSE b

\* the pixels <<column, row>> of a w x h image within a rectangle
Box(x1, x2, y1, y2, w, h) ==
    {<<c, r>> : c \in Max(x1, 0)..Min(x2, w - 1), r \in Max(y1, 0)..Min(y2, h - 1)}

\* cv2.line for a segment parallel to an axis: both end points and the
\* pixels between them, clipped to the image; thickness 3 adds a pixel on
\* either side of the axis and ends that reach cap pixels further
LinePixels(p, q, thickness, cap, w, h) ==
    LET half == thickness \div 2
        ext == IF thickness > 1 THEN cap ELSE 0
    IN  IF p[2] = q[2]
        THEN Box(Min(p[1], q[1]) - ext, Max(p[1], q[1]) + ext,
                 p[2] - half, p[2] + half, w, h)
        ELSE Box(p[1] - half, p[1] + half,
                 Min(p[2], q[2]) - ext, Max(p[2], q[2]) + ext, w, h)

\* cv2.circle with thickness -1: the filled disc
CirclePixels(c, radius, w, h) ==
    {px \in Box(c[1] - radius, c[1] + radius, c[2] - radius, c[2] + radius, w, h) :
        (px[1] - c[1]) * (px[1] - c[1]) + (px[2] - c[2]) * (px[2] - c[2])
            <= radius * radius}

\* arms that stop one pixel nearer to the centre
CrossHairArms_Near(x, y, w, h) ==
    << <<(<<0, y>>), (<<x - CROSSHAIR_CENTER_SPACE + 1, y>>)>>,
       <<(<<x + CROSSHAIR_CENTER_SPACE, y>>), (<<w - 1, y>>)>>,
       <<(<<x, 0>>), (<<x, y - CROSSHAIR_CENTER_SPACE>>)>>,
       <<(<<x, y + CROSSHAIR_CENTER_SPACE - 1>>), (<<x, h - 1>>)>> >>

\* renderCrossHair, the four lines of thickness 1: their end points
CrossHairArms(x, y, w, h) ==
    << <<(<<0, y>>), (<<x - CROSSHAIR_CENTER_SPACE, y>>)>>,
       <<(<<x + CROSSHAIR_CENTER_SPACE, y>>), (<<w - 1, y>>)>>,
       <<(<<x, 0>>), (<<x, y - CROSSHAIR_CENTER_SPACE>>)>>,
       <<(<<x, y + CROSSHAIR_CENTER_SPACE>>), (<<x, h - 1>>)>> >>

\* accent ticks at the left and top edge that end one pixel earlier
AccentTicks_Short(x, y, w, h) ==
    << <<(<<0, y>>), (<<CROSSHAIR_ACCENT2_LENGTH - 1, y>>)>>,
       <<(<<w - CROSSHAIR_ACCENT1_LENGTH, y>>), (<<w - 1, y>>)>>,
       <<(<<x, 0>>), (<<x, CROSSHAIR_ACCENT2_LENGTH - 1>>)>>,
       <<(<<x, h - CROSSHAIR_ACCENT1_LENGTH>>), (<<x, h - 1>>)>> >>

\* renderCrossHair, the four lines of thickness 3 (left, right, top,
\* bottom): their end points
AccentTicks(x, y, w, h) ==
    << <<(<<0, y>>), (<<CROSSHAIR_ACCENT2_LENGTH, y>>)>>,
       <<(<<w - CROSSHAIR_ACCENT1_LENGTH, y>>), (<<w - 1, y>>)>>,
       <<(<<x, 0>>), (<<x, CROSSHAIR_ACCENT2_LENGTH>>)>>,
       <<(<<x, h - CROSSHAIR_ACCENT1_LENGTH>>), (<<x, h - 1>>)>> >>

\* renderCrossHair: the pixels it paints on a w x h image for the crosshair
\* at (x, y)
CrossHairPixels(x, y, w, h, cap) ==
    LET arms == CrossHairArms(x, y, w, h)
        ticks == AccentTicks(x, y, w, h)
    IN  UNION ({LinePixels(arms[i][1], arms[i][2], 1, cap, w, h) : i \in 1..4}
               \cup {CirclePixels(<<x, y>>, 1, w, h)}
               \cup {LinePixels(ticks[i][1], ticks[i][2], 3, cap, w, h) : i \in 1..4})

\* renderCrossHair draws into the image it is given (cv2.line and cv2.circle
\* draw in place and return the same image); with None for an image
\* cv2.line raises, which ends the module-level code.  The heap records the
\* position <<x, y>> of each crosshair drawn on an image; CrossHairPixels
\* gives its pixels
renderCrossHair(heap, f, x, y) ==
    [heap EXCEPT ![f] = @ \cup {<<x, y>>}]

\* "img = renderCrossHair(frame, crossHairX, crossHairY, imageWidth, imageHeight)"
LoopRender ==
    /\ mainpc = "render"
    /\ IF frame = None
       THEN /\ mainpc' = "raised"
            /\ UNCHANGED <<image, img>>
       ELSE /\ image' = renderCrossHair(image, frame, argX, argY)
            /\ img' = frame
            /\ mainpc' = "imshow"
    /\ UNCHANGED <<bgpc, streamVars, acqAfterStop, pointerVars, cbVars,
                   frame, argX, argY, shown, key, iter, geomVars>>

\* "cv2.imshow(TITLE, img)"
LoopShow ==
    /\ mainpc = "imshow"
    /\ shown' = <<img, image[img]>>
    /\ mainpc' = "waitKey"
    /\ UNCHANGED <<bgpc, streamVars, image, acqAfterStop, pointerVars, cbVars,
                   frame, argX, argY, img, key, iter, geomVars>>

\* the comparison without the mask
IsQuitKey_NoMask(k) == k = ORD_q

\* "cv2.waitKey(1) & 0xFF == ord('q')"
IsQuitKey(k) == k % 256 = ORD_q

\* a quit that goes to cv2.destroyAllWindows() without capture.stop()
LoopWaitKey_NoStop ==
    /\ mainpc = "waitKey"
    /\ \E k \in KeyCodes :
         /\ key' = k
         /\ mainpc' = IF k % 256 = ORD_q THEN "destroyAllWindows" ELSE "read"
    /\ UNCHANGED <<bgpc, streamVars, image, acqAfterStop, pointerVars, cbVars,
                   frame, argX, argY, img, iter, shown, geomVars>>

\* "if cv2.waitKey(1) & 0xFF == ord('q'): break"
LoopWaitKey ==
    /\ mainpc = "waitKey"
    /\ \E k \in KeyCodes :
         /\ key' = k
         /\ mainpc' = IF IsQuitKey(k) THEN "stop" ELSE "read"
    /\ UNCHANGED <<bgpc, streamVars, image, acqAfterStop, pointerVars, cbVars,
                   frame, argX, argY, img, iter, shown, geomVars>>

\* "cv2.destroyAllWindows()"
DestroyAllWindows ==
    /\ mainpc = "destroyAllWindows"
    /\ shown' = <<None, {}>>
    /\ mainpc' = "done"
    /\ UNCHANGED <<bgpc, streamVars, image, acqAfterStop, pointerVars, cbVars,
                   frame, argX, argY, img, key, iter, geomVars>>

(* ------------------------- pointer events ------------------------------ *)
\* History kept with the events: dragging and expected fold the delivered
\* sequence by the rule "a PRESS starts a drag, a RELEASE ends it, the
\* position is that of the last PRESS or MOVE during a drag"; pre is the
\* pointer state the last event found.  No action reads them.
\* the display layer calls getMouseCoordinates only while the window is
\* being served by the render loop, one call at a time
Deliver(kind, x, y) ==
    /\ Running
    /\ cbpc = "idle"
    /\ event' = <<kind, x, y>>
    /\ pre' = <<crossHairX, crossHairY, mouseDown>>
    /\ pressSeen' = (pressSeen \/ kind = EVENT_LBUTTONDOWN)
    /\ dragging' = IF kind = EVENT_LBUTTONDOWN THEN TRUE
                   ELSE IF kind = EVENT_LBUTTONUP THEN FALSE
                   ELSE dragging
    /\ IF kind = EVENT_LBUTTONDOWN \/ (kind = EVENT_MOUSEMOVE /\ dragging)
       THEN expected' = <<x, y>>
       ELSE UNCHANGED expected

\* a press that does not set mouseDown
Press_NoFlag(x, y) ==
    /\ Deliver(EVENT_LBUTTONDOWN, x, y)
    /\ argMouseDown' = mouseDown
    /\ cbpc' = "setCrossHair"
    /\ UNCHANGED <<mainpc, bgpc, streamVars, image, acqAfterStop, pointerVars,
                   loopVars, geomVars>>

\* getMouseCoordinates, "event == cv2.EVENT_LBUTTONDOWN": mouseDown = True,
\* then the call setCrossHair(x, y, mouseDown)
Press(x, y) ==
    /\ Deliver(EVENT_LBUTTONDOWN, x, y)
    /\ mouseDown' = TRUE
    /\ argMouseDown' = TRUE
    /\ cbpc' = "setCrossHair"
    /\ UNCHANGED <<mainpc, bgpc, streamVars, image, acqAfterStop, crossHairX,
                   crossHairY, loopVars, geomVars>>

\* a release that also moves the crosshair to the reported position
Release_Moves(x, y) ==
    /\ Deliver(EVENT_LBUTTONUP, x, y)
    /\ mouseDown' = FALSE
    /\ crossHairX' = x
    /\ crossHairY' = y
    /\ cbpc' = "idle"
    /\ UNCHANGED <<mainpc, bgpc, streamVars, image, acqAfterStop, argMouseDown,
                   loopVars, geomVars>>

\* getMouseCoordinates, "event == cv2.EVENT_LBUTTONUP": mouseDown = False
Release(x, y) ==
    /\ Deliver(EVENT_LBUTTONUP, x, y)
    /\ mouseDown' = FALSE
    /\ cbpc' = "idle"
    /\ UNCHANGED <<mainpc, bgpc, streamVars, image, acqAfterStop, crossHairX,
                   crossHairY, argMouseDown, loopVars, geomVars>>

\* a move that passes True for mouseDown
Move_AlwaysDown(x, y) ==
    /\ Deliver(EVENT_MOUSEMOVE, x, y)
    /\ argMouseDown' = TRUE
    /\ cbpc' = "setCrossHair"
    /\ UNCHANGED <<mainpc, bgpc, streamVars, image, acqAfterStop, pointerVars,
                   loopVars, geomVars>>

\* getMouseCoordinates, "event == cv2.EVENT_MOUSEMOVE": the call
\* setCrossHair(x, y, mouseDown)
Move(x, y) ==
    /\ Deliver(EVENT_MOUSEMOVE, x, y)
    /\ argMouseDown' = mouseDown
    /\ cbpc' = "setCrossHair"
    /\ UNCHANGED <<mainpc, bgpc, streamVars, image, acqAfterStop, pointerVars,
                   loopVars, geomVars>>

\* setCrossHair without the early return
setCrossHairGuard_NoReturn(down) == "crossHairY"

\* setCrossHair, "if not mouseDown: return"
setCrossHairGuard(down) == IF down THEN "crossHairY" ELSE "idle"

SetCrossHairEnter ==
    /\ cbpc = "setCrossHair"
    /\ cbpc' = setCrossHairGuard(argMouseDown)
    /\ UNCHANGED <<mainpc, bgpc, streamVars, image, acqAfterStop, pointerVars,
                   event, argMouseDown, histVars, loopVars, geomVars>>

\* setCrossHair, "crossHairY = mouseY"
SetCrossHairY ==
    /\ cbpc = "crossHairY"
    /\ crossHairY' = event[3]
    /\ cbpc' = "crossHairX"
    /\ UNCHANGED <<mainpc, bgpc, streamVars, image, acqAfterStop, mouseDown,
                   crossHairX, event, argMouseDown, histVars, loopVars, geomVars>>

\* setCrossHair moving the crosshair half of the way
SetCrossHairX_Smooths ==
    /\ cbpc = "crossHairX"
    /\ crossHairX' = (crossHairX + event[2]) \div 2
    /\ cbpc' = "idle"
    /\ UNCHANGED <<mainpc, bgpc, streamVars, image, acqAfterStop, mouseDown,
                   crossHairY, event, argMouseDown, histVars, loopVars, geomVars>>

\* setCrossHair, "crossHairX = mouseX"
SetCrossHairX ==
    /\ cbpc = "crossHairX"
    /\ crossHairX' = event[2]
    /\ cbpc' = "idle"
    /\ UNCHANGED <<mainpc, bgpc, streamVars, image, acqAfterStop, mouseDown,
                   crossHairY, event, argMouseDown, histVars, loopVars, geomVars>>

(* --------------------------- specification ----------------------------- *)
MainNext ==
    \/ VideoStreamInit
    \/ VideoStreamStart
    \/ OpenIfNotOpened
    \/ SetDefaultCrossHair
    \/ LoopRead
    \/ LoopArgX
    \/ LoopArgY
    \/ LoopRender
    \/ LoopShow
    \/ LoopWaitKey
    \/ StopSetFlag
    \/ StopRelease
    \/ DestroyAllWindows

UpdateNext ==
    \/ UpdateCheck
    \/ UpdateRead

PointerNext ==
    \/ \E p \in PointerPoints : Press(p[1], p[2])
    \/ \E p \in PointerPoints : Release(p[1], p[2])
    \/ \E p \in PointerPoints : Move(p[1], p[2])
    \/ SetCrossHairEnter
    \/ SetCrossHairY
    \/ SetCrossHairX

Next == MainNext \/ UpdateNext \/ PointerNext

Spec == Init /\ [][Next]_vars

\* the display layer calls getMouseCoordinates from inside cv2.waitKey, on
\* the thread of the module-level code: a call starts while that code is in
\* waitKey and ends before it goes on; update runs beside both
SerialNext ==
    \/ (cbpc = "idle" /\ MainNext)
    \/ UpdateNext
    \/ (mainpc = "waitKey" /\ PointerNext)

SerialSpec == Init /\ [][SerialNext]_vars

\* the render loop at its renderCrossHair call, in its first iteration after
\* a PRESS at (argX, argY), with a camera of RenderWidth x RenderHeight
RenderInit ==
    /\ mainpc = "render"
    /\ bgpc = "check"
    /\ cbpc = "idle"
    /\ opened = TRUE
    /\ self_grabbed = TRUE
    /\ self_frame = 0
    /\ self_stopped = FALSE
    /\ image = (0 :> {})
    /\ acqCount = 0
    /\ mouseDown = TRUE
    /\ argX \in 0..(RenderWidth - 1)
    /\ argY \in 0..(RenderHeight - 1)
    /\ crossHairX = argX
    /\ crossHairY = argY
    /\ imageWidth = RenderWidth
    /\ imageHeight = RenderHeight
    /\ frame = 0
    /\ img = None
    /\ iter = 1
    /\ shown = <<None, {}>>
    /\ key = None
    /\ event = <<EVENT_LBUTTONDOWN, argX, argY>>
    /\ argMouseDown = TRUE
    /\ pre = <<RenderWidth \div 2, RenderHeight \div 2, FALSE>>
    /\ dragging = TRUE
    /\ expected = <<argX, argY>>
    /\ pressSeen = TRUE
    /\ acqAfterStop = 0

RenderNext == LoopRender \/ LoopShow

RenderSpec == RenderInit /\ [][RenderNext]_vars

\* the pointer events and the module-level code: no step of update writes
\* or reads a variable of the pointer state
PointerSpec == Init /\ [][MainNext \/ PointerNext]_vars

\* the module-level code and update
StreamSpec == Init /\ [][MainNext \/ UpdateNext]_vars

\* the update thread, once started, keeps being scheduled
FairStreamSpec == StreamSpec /\ WF_vars(UpdateNext)

(* ------------------------------ claims --------------------------------- *)
\* the crosshair has been initialised (line 228 has run)
Initialised == mainpc \notin {"VideoStream", "start", "isOpened", "defaultCrossHair"}
CrossHair == <<crossHairX, crossHairY>>
EventPos == <<event[2], event[3]>>
\* some stream.read() has returned an image
Succeeded == DOMAIN image # {}
\* the image of the latest successful read: references grow with each read
LastGood == CHOOSE r \in DOMAIN image : \A q \in DOMAIN image : q <= r

\* C1: after any sequence of events (no call in progress) the crosshair is
\* at the position of the last event that was a PRESS, or a MOVE received
\* during a drag; with no such event it is at its initial position.  A MOVE
\* after a RELEASE therefore changes nothing.
C1_LastEffectiveEvent ==
    (Initialised /\ cbpc = "idle") => (CrossHair = expected /\ mouseDown = dragging)

\* a MOVE after a PRESS and a RELEASE, at another position, has been handled
C1_Witness ==
    /\ cbpc = "idle"
    /\ event[1] = EVENT_MOUSEMOVE
    /\ ~dragging
    /\ expected \in PointerPoints
    /\ expected # <<imageWidth \div 2, imageHeight \div 2>>
    /\ EventPos # expected

\* C2 (as claimed): once a read has succeeded, VideoStream.read() never
\* returns None.
C2_ReadNeverNone == Succeeded => VideoStreamRead # None

\* C3 (as claimed): when the render loop reads during a run of failed
\* acquisitions that follows a successful one, it gets the image of the last
\* successful acquisition, and rendering it does not raise.
C3_ShowsLastGood ==
    [][/\ (mainpc = "read" /\ mainpc' = "argX" /\ Succeeded /\ ~self_grabbed)
            => frame' = LastGood
       /\ (mainpc = "render" /\ Succeeded /\ frame = LastGood)
            => mainpc' # "raised"]_vars

\* C4 (as claimed): the pair the render loop passes to renderCrossHair was
\* set by one event or is the initial pair.  Events report only positions
\* <<p, p>>, so any other pair mixes two events.
C4_NoTornCrossHair ==
    (mainpc = "render" /\ frame # None) =>
        <<argX, argY>> \in PointerPoints \cup {<<imageWidth \div 2, imageHeight \div 2>>}

\* C5 (as claimed): an iteration that read an invalid frame skips rendering
\* and display and goes on to the quit-key poll.
C5_SkipsInvalidFrame ==
    [][(mainpc = "render" /\ frame = None /\ mainpc' # mainpc)
          => (mainpc' = "waitKey" /\ image' = image /\ shown' = shown)]_vars

\* C6 (as claimed): the render loop is never Running with an invalid initial
\* frame or with a width or height the device did not report.
C6_NoRunningWithoutCamera ==
    Running => (0 \in DOMAIN image /\ imageWidth > 0 /\ imageHeight > 0)

\* C7: after stop() has set the flag, update completes at most one more
\* acquisition, never goes on to a read after it has seen the flag set, and
\* returns.
C7_CooperativeStop ==
    /\ [](acqAfterStop <= 1)
    /\ [][(bgpc = "check" /\ self_stopped) => bgpc' # "read"]_vars
    /\ (self_stopped ~> bgpc = "returned")

\* update has returned after an acquisition that completed after the flag was set
C7_Witness == acqAfterStop = 1 /\ bgpc = "returned"

\* C8: once a PRESS at (x, y) has been handled, mouseDown is true and the
\* crosshair is at (x, y), whatever the state before.
C8_Press ==
    (cbpc = "idle" /\ event[1] = EVENT_LBUTTONDOWN)
        => (mouseDown /\ crossHairX = event[2] /\ crossHairY = event[3])

\* a PRESS during a drag, at a position other than the crosshair's, has been handled
C8_Witness ==
    /\ cbpc = "idle"
    /\ event[1] = EVENT_LBUTTONDOWN
    /\ pre[3]
    /\ <<pre[1], pre[2]>> # EventPos

\* C9: once a MOVE at (x, y) has been handled, if mouseDown was true the
\* crosshair is at (x, y) and mouseDown is still true; if it was false,
\* crossHairX, crossHairY and mouseDown are what they were.
C9_Move ==
    (cbpc = "idle" /\ event[1] = EVENT_MOUSEMOVE)
        => IF pre[3]
           THEN CrossHair = EventPos /\ mouseDown
           ELSE <<crossHairX, crossHairY, mouseDown>> = pre

\* a MOVE during a drag, at a position other than the crosshair's, has been handled
C9_Witness ==
    /\ cbpc = "idle"
    /\ event[1] = EVENT_MOUSEMOVE
    /\ pre[3]
    /\ <<pre[1], pre[2]>> # EventPos

\* C10: a RELEASE sets mouseDown to false and leaves the crosshair where it
\* was, whatever position the RELEASE reports; when the event before it was
\* a PRESS at (x, y), the crosshair is at (x, y).
C10_Release ==
    [][(\E p \in PointerPoints : Release(p[1], p[2]))
          => /\ ~mouseDown'
             /\ CrossHair' = CrossHair
             /\ (event[1] = EVENT_LBUTTONDOWN => CrossHair' = EventPos)]_vars

\* a RELEASE during a drag, reporting another position than the crosshair's,
\* has been handled
C10_Witness ==
    /\ cbpc = "idle"
    /\ event[1] = EVENT_LBUTTONUP
    /\ pre[3]
    /\ CrossHair \in PointerPoints
    /\ CrossHair # EventPos

\* the phases of the module-level code; an exception leaves it in the phase
\* in which it was raised
PhaseRank ==
    IF mainpc \in {"VideoStream", "start", "isOpened", "defaultCrossHair"} THEN 0
    ELSE IF Running \/ mainpc = "raised" THEN 1
    ELSE IF mainpc \in {"stop", "release", "destroyAllWindows"} THEN 2
    ELSE 3

\* C11: the phases Initializing, Running, Stopping, Terminated are passed in
\* this order, one at a time and never backwards; cv2.destroyAllWindows()
\* runs only after stop() has set the flag and released the device; from
\* the quit on, no frame is read, drawn on or shown.
C11_PhaseOrder ==
    [][/\ PhaseRank' \in {PhaseRank, PhaseRank + 1}
       /\ (mainpc = "destroyAllWindows" /\ mainpc' = "done")
             => (self_stopped /\ ~opened)
       /\ PhaseRank >= 2
             => /\ frame' = frame /\ img' = img /\ iter' = iter
                /\ \A r \in DOMAIN image : image'[r] = image[r]
                /\ shown' = shown \/ mainpc' = "done"]_vars

\* the program has terminated after showing a frame
C11_Witness == mainpc = "done" /\ img # None /\ self_stopped

\* C12 (as claimed): the loop leaves Running when the polled key is 'q'
\* (113) and for no other polled result.
C12_OnlyLowercaseQ ==
    [][(mainpc = "waitKey" /\ mainpc' # "waitKey")
          => (mainpc' = "stop" <=> key' = ORD_q)]_vars

\* C12 (amended): the loop leaves Running exactly when the low eight bits of
\* the polled result are 113: for 'q' and for a code above 255 ending in
\* that byte; 'Q' (81) and "no key" (-1) keep it Running.
C12_LowByteIsQ ==
    [][(mainpc = "waitKey" /\ mainpc' # "waitKey")
          => /\ mainpc' = "stop" <=> key' % 256 = ORD_q
             /\ key' \in {ORD_q, ORD_q + 256} => mainpc' = "stop"
             /\ key' \in {-1, ORD_Q} => mainpc' = "read"]_vars

\* the loop has been left on a key code above 255
C12_Witness == mainpc = "stop" /\ key = ORD_q + 256

\* C13 (as claimed): the render loop never draws on the image held in the
\* latest-frame slot, so the frame it shows carries the crosshair only at
\* the coordinates of that iteration.
C13_SlotFrameNotDrawnOn ==
    /\ self_frame # None => image[self_frame] = {}
    /\ mainpc = "waitKey" => shown[2] \subseteq {<<argX, argY>>}

\* the crosshairs on the image the window shows
ShownCrossHairs == IF mainpc = "waitKey" THEN shown[2] ELSE {}

\* on row y: no pixel strictly inside the gap is painted except those of
\* the centre disc, and every pixel from the gap's ends outwards is painted
RowGap(P, x, y, w) ==
    \A c \in 0..(w - 1) :
        /\ (x - CROSSHAIR_CENTER_SPACE < c /\ c < x + CROSSHAIR_CENTER_SPACE
              /\ (c < x - 1 \/ c > x + 1)) => <<c, y>> \notin P
        /\ (c <= x - CROSSHAIR_CENTER_SPACE \/ c >= x + CROSSHAIR_CENTER_SPACE)
              => <<c, y>> \in P

\* the same on column x
ColGap(P, x, y, h) ==
    \A r \in 0..(h - 1) :
        /\ (y - CROSSHAIR_CENTER_SPACE < r /\ r < y + CROSSHAIR_CENTER_SPACE
              /\ (r < y - 1 \/ r > y + 1)) => <<x, r>> \notin P
        /\ (r <= y - CROSSHAIR_CENTER_SPACE \/ r >= y + CROSSHAIR_CENTER_SPACE)
              => <<x, r>> \in P

\* (x, y) is far enough from every edge for the accent ticks, rounded ends
\* included, to end outside the gap
ClearOfTicks(x, y, w, h) ==
    /\ x >= CROSSHAIR_ACCENT2_LENGTH + CapMax + CROSSHAIR_CENTER_SPACE
    /\ x <= w - CROSSHAIR_ACCENT1_LENGTH - CapMax - CROSSHAIR_CENTER_SPACE
    /\ y >= CROSSHAIR_ACCENT2_LENGTH + CapMax + CROSSHAIR_CENTER_SPACE
    /\ y <= h - CROSSHAIR_ACCENT1_LENGTH - CapMax - CROSSHAIR_CENTER_SPACE

\* C14 (as claimed): for every (x, y) within the frame the horizontal line
\* has a gap spanning exactly [x-10, x+10] and the vertical line a gap
\* spanning exactly [y-10, y+10].
C14_GapEverywhere ==
    \A m \in ShownCrossHairs : \A cap \in 0..CapMax :
        LET P == CrossHairPixels(m[1], m[2], imageWidth, imageHeight, cap)
        IN  /\ RowGap(P, m[1], m[2], imageWidth)
            /\ ColGap(P, m[1], m[2], imageHeight)

\* C14 (amended): the gaps are as claimed for every (x, y) at least 32
\* pixels from the left and top edge and 33 from the right and bottom edge.
C14_GapAwayFromEdges ==
    \A m \in ShownCrossHairs : \A cap \in 0..CapMax :
        ClearOfTicks(m[1], m[2], imageWidth, imageHeight) =>
            LET P == CrossHairPixels(m[1], m[2], imageWidth, imageHeight, cap)
            IN  /\ RowGap(P, m[1], m[2], imageWidth)
                /\ ColGap(P, m[1], m[2], imageHeight)

\* a crosshair clear of the ticks is shown
C14_Witness ==
    \E m \in ShownCrossHairs : ClearOfTicks(m[1], m[2], imageWidth, imageHeight)

\* what the most recently completed stream.read() returned: the image of
\* acquisition acqCount (0 is the constructor's), or None when it failed
LatestAcquired == IF self_grabbed THEN acqCount ELSE None

\* C15: before stop() the slot holds what the most recently completed
\* acquisition returned, never an older frame; read() hands out the slot's
\* content without consuming it, and is never held back by the update loop.
C15_LastWriteWins ==
    /\ [](~self_stopped =>
            /\ VideoStreamRead = LatestAcquired
            /\ (mainpc = "read" /\ iter < MaxIter) => ENABLED LoopRead)
    /\ [][(~self_stopped /\ mainpc = "read" /\ mainpc' # "read")
              => /\ frame' = LatestAcquired
                 /\ streamVars' = streamVars]_vars

\* the loop's first read returns acquisition 2: the constructor's frame and
\* acquisition 1 were overwritten unread
C15_Witness == mainpc = "argX" /\ iter = 1 /\ frame = 2 /\ ~self_stopped

\* the centre of the reported frame dimensions
Centre == <<imageWidth \div 2, imageHeight \div 2>>

\* C16: from initialisation until the first PRESS the crosshair is at the
\* centre (width div 2, height div 2) of the reported dimensions, (320, 240)
\* for 640 x 480, the button flag is false, and the render loop passes the
\* centre to renderCrossHair.
C16_CentreUntilPress ==
    (Initialised /\ ~pressSeen) =>
        /\ CrossHair = Centre
        /\ ~mouseDown
        /\ (imageWidth = 640 /\ imageHeight = 480) => CrossHair = <<320, 240>>
        /\ mainpc \in {"argY", "render"} => argX = Centre[1]
        /\ mainpc = "render" => argY = Centre[2]
        /\ \A r \in DOMAIN image : image[r] \subseteq {Centre}

\* a MOVE away from the centre was delivered before any PRESS, and the loop
\* is in its second iteration on a 640 x 480 camera
C16_Witness ==
    /\ ~pressSeen /\ event[1] = EVENT_MOUSEMOVE /\ EventPos # Centre
    /\ iter = 2 /\ mainpc = "waitKey" /\ imageWidth = 640 /\ imageHeight = 480
    /\ shown[2] = {<<320, 240>>}

\* C17: after initialisation no step changes imageWidth or imageHeight, and
\* at every renderCrossHair call they are the dimensions the device reports.
C17_GeometryConstant ==
    /\ [][Initialised => (imageWidth' = imageWidth /\ imageHeight' = imageHeight)]_vars
    /\ [](mainpc = "render" =>
            /\ imageWidth = StreamGet(opened, CV_CAP_PROP_FRAME_WIDTH)
            /\ imageHeight = StreamGet(opened, CV_CAP_PROP_FRAME_HEIGHT))

\* the session ended after a press, two iterations and an acquisition
C17_Witness ==
    /\ mainpc = "done" /\ pressSeen /\ iter = 2 /\ acqCount >= 1
    /\ imageWidth = CamWidth /\ imageHeight = CamHeight

\* C18: after initialisation no step of the module-level code (render loop,
\* stop, clean up) or of update changes crossHairX, crossHairY or mouseDown;
\* a step that changes one of them belongs to the handling of an event and
\* sets the coordinate to the one the event reported, mouseDown to true for
\* a PRESS and to false for a RELEASE.
C18_OnlyPointerEvents ==
    [][Initialised =>
          /\ (mainpc' # mainpc \/ bgpc' # bgpc) => pointerVars' = pointerVars
          /\ pointerVars' # pointerVars => (cbpc # "idle" \/ event' # event \/ cbpc' # "idle")
          /\ crossHairX' # crossHairX => (crossHairX' = event[2] /\ event' = event)
          /\ crossHairY' # crossHairY => (crossHairY' = event[3] /\ event' = event)
          /\ mouseDown' # mouseDown
                => /\ event'[1] \in {EVENT_LBUTTONDOWN, EVENT_LBUTTONUP}
                   /\ mouseDown' = (event'[1] = EVENT_LBUTTONDOWN)
          /\ (cbpc = "crossHairX" /\ cbpc' = "idle") => CrossHair' = EventPos']_vars

\* a drag has moved the crosshair from one reported position to another, the
\* loop has iterated twice and update has acquired a frame
C18_Witness ==
    /\ cbpc = "idle" /\ event[1] = EVENT_MOUSEMOVE /\ pre[3]
    /\ <<pre[1], pre[2]>> \in PointerPoints /\ CrossHair = EventPos
    /\ CrossHair # <<pre[1], pre[2]>> /\ iter = 2 /\ acqCount >= 1

\* stop() has released the capture device
Released == mainpc \in {"destroyAllWindows", "done"}

\* C19 (as claimed): update never calls stream.read() after stop() has
\* released the device.
C19_NoReadAfterRelease ==
    [][(bgpc = "read" /\ bgpc' # "read") => ~Released]_vars

\* the number of pixels accent tick i (1 left, 2 right, 3 top, 4 bottom) of
\* the crosshair at m covers along its axis: on row m[2] for the horizontal
\* ticks, on column m[1] for the vertical ones
TickLength(i, m, cap) ==
    LET t == AccentTicks(m[1], m[2], imageWidth, imageHeight)[i]
        P == LinePixels(t[1], t[2], 3, cap, imageWidth, imageHeight)
    IN  IF i \in {1, 2}
        THEN Cardinality({px \in P : px[2] = m[2]})
        ELSE Cardinality({px \in P : px[1] = m[1]})

\* C20 (as claimed): the left and the top tick are 20 pixels long, the
\* right and the bottom tick 21 pixels.
C20_AsymmetricTicks ==
    \A m \in ShownCrossHairs : \E cap \in 0..CapMax :
        /\ TickLength(1, m, cap) = 20
        /\ TickLength(3, m, cap) = 20
        /\ TickLength(2, m, cap) = 21
        /\ TickLength(4, m, cap) = 21

\* C20 (amended): the four ticks have the same length: with inclusive end
\* points each covers 21 pixels along its axis (columns 0..20 and
\* W-21..W-1 of row y, rows 0..20 and H-21..H-1 of column x), plus the same
\* rounded end on each.
C20_SymmetricTicks ==
    \A m \in ShownCrossHairs : \A cap \in 0..CapMax : \A i \in 1..4 :
        /\ TickLength(i, m, cap) = CROSSHAIR_ACCENT1_LENGTH + cap
        /\ TickLength(i, m, 0) = 21

\* a crosshair in the bottom right corner of the frame is shown
C20_Witness == <<imageWidth - 1, imageHeight - 1>> \in ShownCrossHairs

====
